---- MODULE Spec2Model ----
(***************************************************************************)
(* Model of the Fashion Commerce API (src/main.py, src/schemas.py).        *)
(*                                                                         *)
(* The process holds no state of its own besides the module-level store    *)
(* handle `db`; everything else lives in the document store (collections   *)
(* user, product, order).  Each HTTP handler is one action, except signup, *)
(* whose two store calls (find, insert) are separate steps of a request    *)
(* because other requests may run between them.                            *)
(*                                                                         *)
(* Money: a price is a JSON number; the model draws prices from the        *)
(* multiples of 1/8, which are exact IEEE doubles, so products and sums in *)
(* eighths are exact and Python's round(x, 2) (correctly rounded, ties to  *)
(* even) is computed exactly.  `subtotal`, `shipping` and item prices are  *)
(* in eighths; `total` is in hundredths.                                   *)
(***************************************************************************)
EXTENDS Integers, Sequences, FiniteSets, TLC

VARIABLES db, storeUp, nextOid, user, product, order, resp, query, pc, req

vars == <<db, storeUp, nextOid, user, product, order, resp, query, pc, req>>

(***************************************************************************)
(* Bounds of the model.                                                    *)
(***************************************************************************)
MaxItems == 2
MaxOrders == 1
MaxProducts == 2
MaxUsers == 2

\* The requests that may be in flight together.
Procs == {1, 2}

(***************************************************************************)
(* Strings that the code slices or parses are sequences of characters.     *)
(***************************************************************************)
HexDigits ==
    {"0","1","2","3","4","5","6","7","8","9","a","b","c","d","e","f",
     "A","B","C","D","E","F"}

\* str.lower() of one character, for the letters the model uses.
Lower(c) ==
    CASE c = "A" -> "a" [] c = "B" -> "b" [] c = "C" -> "c" [] c = "D" -> "d"
      [] c = "E" -> "e" [] c = "F" -> "f" [] c = "T" -> "t" [] c = "H" -> "h"
      [] OTHER -> c

LowerStr(s) == [i \in 1..Len(s) |-> Lower(s[i])]

Digit(n) == <<"0","1","2","3","4","5","6","7","8","9">>[n + 1]

\* bson.ObjectId(v): accepts exactly the strings of 24 hexadecimal digits.
IsObjectId(s) == Len(s) = 24 /\ \A i \in 1..Len(s) : s[i] \in HexDigits

\* ObjectId(s) of a valid s, as str() prints it: the digits in lower case.
ObjectId(s) == LowerStr(s)

\* str(inserted_id) of the n-th document the store creates: 4 bytes of
\* timestamp, 5 bytes of process-random value, 3 bytes of counter.
OidStr(n) ==
    <<"6","7","2","6","4","e","9","1">> \o
    <<"b","3","c","0","d","5","a","8","f","7">> \o
    <<"0","0","0","0", Digit(n \div 10), Digit(n % 10)>>

None == "None"

(***************************************************************************)
(* JSON values of a loosely typed payload (Dict[str, Any]).  A value is a  *)
(* record [k, v]: k = "num" a JSON number v; "frac" the JSON number v + 1/2 *)
(* (used for quantities); "str" the string spelling the number v; "bad" a  *)
(* string that spells no number; "missing" the key is absent.              *)
(***************************************************************************)
Num(v) == [k |-> "num", v |-> v]
Frac(v) == [k |-> "frac", v |-> v]
Str(v) == [k |-> "str", v |-> v]
Bad == [k |-> "bad", v |-> 0]
Missing == [k |-> "missing", v |-> 0]

\* dict.get(key, default)
Get(x, default) == IF x.k = "missing" THEN Num(default) ELSE x

\* float(x) and int(x) raise ValueError on a string that spells no number.
Raises(x) == x.k = "bad"

\* float(x), in eighths (prices are never "frac").
float(x) == x.v

\* int(x): truncates a float toward zero, parses a string of digits.
int(x) == IF x.k = "frac" /\ x.v < 0 THEN x.v + 1 ELSE x.v

\* round(x, 2) of the double x = n/8, in hundredths: n/8 = 25n/2 hundredths,
\* a tie exactly when 25n is odd, and ties go to the even neighbour.
round2(n) ==
    LET x == 25 * n
        f == x \div 2
    IN  IF x % 2 = 0 THEN f
        ELSE IF f % 2 = 0 THEN f ELSE f + 1

(***************************************************************************)
(* schemas.py: pydantic validation (lax mode) of the models.               *)
(***************************************************************************)
\* int field: an integer, a float without fractional part or a string of
\* digits; Field(ge=lo).
IntField(x, lo) == x.k \in {"num", "str"} /\ x.v >= lo

\* float field with Field(ge=0).
FloatFieldGe0(x) == x.k \in {"num", "str"} /\ x.v >= 0

\* CartItem without the bound on quantity.
CartItemValid_AnyQuantity(i) ==
    /\ i.product_id # None
    /\ IntField(i.quantity, -100)
    /\ FloatFieldGe0(i.price)

\* CartItem(**i): product_id, quantity, price are required.
CartItemValid(i) ==
    /\ i.product_id # None
    /\ IntField(i.quantity, 1)
    /\ FloatFieldGe0(i.price)

\* The validated CartItem as model_dump() writes it.
CartItemDump(i) ==
    [product_id |-> i.product_id, quantity |-> i.quantity.v, price |-> i.price.v]

AddressRequired == {"full_name", "line1", "city", "state", "postal_code"}

\* Address(**a): a is the set of keys the client supplied.
AddressValid(a) == AddressRequired \subseteq a

\* The validated Address: the optional fields and the default country filled in.
AddressDump(a) == a \cup {"line2", "country", "phone"}

\* EmailStr: one "@", a local part, a domain with an inner dot.
EmailValid(e) ==
    LET ats == {i \in 1..Len(e) : e[i] = "@"}
    IN  /\ Cardinality(ats) = 1
        /\ LET at == CHOOSE i \in ats : TRUE
           IN  /\ at > 1
               /\ \E j \in (at + 2)..(Len(e) - 1) : e[j] = "."

\* Optional[EmailStr]: an optional value is the set of at most one value.
OptEmailValid(e) == \A x \in e : EmailValid(x)

PaymentMethods == {"stripe", "cod"}

\* Order(...) as checkout builds it: status and payment_status are not passed
\* and take the schema's defaults.
OrderValid(items, subtotal, total, payment_method, shipping_address, email) ==
    /\ \A n \in 1..Len(items) : CartItemValid(items[n])
    /\ subtotal >= 0
    /\ total >= 0
    /\ payment_method \in PaymentMethods
    /\ AddressValid(shipping_address)
    /\ OptEmailValid(email)

OrderDump(items, subtotal, shipping, total, payment_method, shipping_address, email) ==
    [user_id |-> None,
     items |-> [n \in 1..Len(items) |-> CartItemDump(items[n])],
     subtotal |-> subtotal,
     shipping |-> shipping,
     total |-> total,
     status |-> "pending",
     payment_method |-> payment_method,
     payment_status |-> "pending",
     transaction_id |-> None,
     shipping_address |-> AddressDump(shipping_address),
     email |-> email]

(***************************************************************************)
(* database.py is not part of the sources: the store handle and            *)
(* create_document are modelled from the store interface of the            *)
(* specification (insert(collection, entity) -> internalId; a storage      *)
(* failure is fatal to the request).                                       *)
(***************************************************************************)
\* create_document fails without a handle or when the store cannot be reached.
CreateDocumentRaises == db = None \/ ~storeUp

\* The document as the store keeps it: the entity's fields and its _id.
WithId(doc, id) ==
    [f \in DOMAIN doc \cup {"_id"} |-> IF f = "_id" THEN id ELSE doc[f]]

(***************************************************************************)
(* POST /checkout                                                          *)
(***************************************************************************)
shipping == 0

\* The handler without its guard on the empty cart.
NoItems_Unchecked(items) == FALSE

\* if not payload.items
NoItems(items) == items = <<>>

\* The generator of line 197 raises at the first item it cannot convert.
SubtotalRaises(items) ==
    \E n \in 1..Len(items) :
        Raises(Get(items[n].price, 0)) \/ Raises(Get(items[n].quantity, 1))

RECURSIVE SumItems(_, _)
SumItems(items, n) ==
    IF n = 0 THEN 0
    ELSE SumItems(items, n - 1)
         + float(Get(items[n].price, 0)) * int(Get(items[n].quantity, 1))

\* sum(float(i.get("price", 0)) * int(i.get("quantity", 1)) for i in items)
Subtotal(items) == SumItems(items, Len(items))

\* A total cut to two decimals instead of rounded.
Total_Truncated(subtotal) == (25 * (subtotal + shipping)) \div 2

\* total = round(subtotal + shipping, 2)
Total(subtotal) == round2(subtotal + shipping)

ClientSecretPrefix == <<"c","s","_","t","e","s","t","_">>

\* order_id[:8]
Prefix8(s) == SubSeq(s, 1, IF Len(s) < 8 THEN Len(s) ELSE 8)

\* A payment dict that carries a client secret for every method.
Payment_AlwaysSecret(payment_method, order_id) ==
    [method |-> payment_method,
     status |-> IF payment_method = "stripe" THEN "requires_action" ELSE "pending",
     client_secret |-> ClientSecretPrefix \o Prefix8(order_id)]

\* The payment dict of lines 214-219.
Payment(payment_method, order_id) ==
    IF payment_method = "stripe"
    THEN [method |-> payment_method, status |-> "requires_action",
          client_secret |-> ClientSecretPrefix \o Prefix8(order_id)]
    ELSE [method |-> payment_method, status |-> "pending"]

\* What the properties need of the last request: whether the cart was empty,
\* whether some item broke the cart-item constraints (quantity < 1, price < 0,
\* or a value that is no number) and whether some item did not.
ItemBroken(i) ==
    \/ i.quantity.k = "bad" \/ i.price.k = "bad"
    \/ (i.quantity.k \in {"num", "str", "frac"} /\ i.quantity.v < 1)
    \/ (i.price.k \in {"num", "str"} /\ i.price.v < 0)

RequestFacts(payload) ==
    [op |-> "checkout",
     no_items |-> payload.items = <<>>,
     broken_item |-> \E n \in 1..Len(payload.items) : ItemBroken(payload.items[n]),
     sound_item |-> \E n \in 1..Len(payload.items) : ~ItemBroken(payload.items[n])]

Reply(payload, status, detail, body) ==
    resp' = [request |-> RequestFacts(payload), status |-> status,
             detail |-> detail, body |-> body]

NoBody == <<>>

checkout(payload) ==
    /\ Len(order) < MaxOrders
    /\ UNCHANGED <<db, storeUp, user, product, query, pc, req>>
    /\ IF NoItems(payload.items)
       THEN /\ Reply(payload, 400, "No items", NoBody)
            /\ UNCHANGED <<order, nextOid>>
       ELSE IF SubtotalRaises(payload.items)
       THEN /\ Reply(payload, 500, "ValueError", NoBody)
            /\ UNCHANGED <<order, nextOid>>
       ELSE LET subtotal == Subtotal(payload.items)
                total == Total(subtotal)
            IN  IF ~OrderValid(payload.items, subtotal, total, payload.payment_method,
                               payload.shipping_address, payload.email)
                THEN /\ Reply(payload, 500, "ValidationError", NoBody)
                     /\ UNCHANGED <<order, nextOid>>
                ELSE IF CreateDocumentRaises
                THEN /\ Reply(payload, 500, "store", NoBody)
                     /\ UNCHANGED <<order, nextOid>>
                ELSE LET order_id == OidStr(nextOid)
                     IN  /\ order' = Append(order,
                                WithId(OrderDump(payload.items, subtotal, shipping, total,
                                                 payload.payment_method,
                                                 payload.shipping_address, payload.email),
                                       order_id))
                         /\ nextOid' = nextOid + 1
                         /\ Reply(payload, 200, "OK",
                                  [order_id |-> order_id, total |-> total,
                                   payment |-> Payment(payload.payment_method, order_id)])

(***************************************************************************)
(* Catalog and admin.  A Product document keeps, of the schema's fields,   *)
(* title, price, category, images, variants, tags, rating, rating_count    *)
(* and is_active (description is always None here).                        *)
(***************************************************************************)
\* ProductVariant(**v): stock is an int with default 0 and no lower bound.
VariantValid(v) == v.stock.k = "missing" \/ IntField(v.stock, -1000000)

VariantDump(v) ==
    [size |-> v.size, color |-> v.color, stock |-> Get(v.stock, 0).v, sku |-> {}]

\* Product(**payload.model_dump()): the dump passes images, variants and tags
\* even when they are None, and None is no List.
ProductValid(payload) ==
    /\ FloatFieldGe0(payload.price)
    /\ payload.images # {} /\ payload.variants # {} /\ payload.tags # {}
    /\ \A vs \in payload.variants : \A n \in 1..Len(vs) : VariantValid(vs[n])

ProductDump(payload) ==
    LET vs == CHOOSE x \in payload.variants : TRUE
    IN  [title |-> payload.title,
         price |-> payload.price.v,
         category |-> payload.category,
         images |-> CHOOSE x \in payload.images : TRUE,
         variants |-> [n \in 1..Len(vs) |-> VariantDump(vs[n])],
         tags |-> CHOOSE x \in payload.tags : TRUE,
         rating |-> 0,
         rating_count |-> 0,
         is_active |-> TRUE]

\* to_public(doc): the _id leaves the document and its string enters as id.
to_public(doc) ==
    [f \in (DOMAIN doc \ {"_id"}) \cup {"id"} |-> IF f = "id" THEN doc._id ELSE doc[f]]

EmptyDict == [x \in {} |-> TRUE]

\* Python truth of an optional string: neither None nor the empty string.
Truthy(opt, empty) == opt # {} /\ opt # {empty}

The(opt) == CHOOSE x \in opt : TRUE

\* Lines 115-119 with the lower bound added only when it is truthy.
price_filter_TruthyMin(min_price, max_price) ==
    (IF min_price # {} /\ min_price # {0} THEN "$gte" :> The(min_price) ELSE EmptyDict)
    @@ (IF max_price # {} THEN "$lte" :> The(max_price) ELSE EmptyDict)

\* Lines 115-119: the price range of the query.
price_filter(min_price, max_price) ==
    (IF min_price # {} THEN "$gte" :> The(min_price) ELSE EmptyDict)
    @@ (IF max_price # {} THEN "$lte" :> The(max_price) ELSE EmptyDict)

\* Lines 110-125: the predicate list_products sends to the store.
ListQuery(f) ==
    ("is_active" :> TRUE)
    @@ (IF Truthy(f.q, <<>>) THEN "title" :> [regex |-> The(f.q), options |-> "i"] ELSE EmptyDict)
    @@ (IF Truthy(f.category, "") THEN "category" :> The(f.category) ELSE EmptyDict)
    @@ (IF price_filter(f.min_price, f.max_price) # EmptyDict
        THEN "price" :> price_filter(f.min_price, f.max_price) ELSE EmptyDict)
    @@ (IF Truthy(f.size, "") THEN "variants.size" :> The(f.size) ELSE EmptyDict)
    @@ (IF Truthy(f.color, "") THEN "variants.color" :> The(f.color) ELSE EmptyDict)

(***************************************************************************)
(* The store's find, from the store interface of the specification: field  *)
(* equality, case-insensitive substring match, inclusive numeric range,    *)
(* and a match on some element of a nested array.  (The search term is     *)
(* matched as a literal substring; the model uses no regex operators.)     *)
(***************************************************************************)
ContainsI(text, term) ==
    \E i \in 0..(Len(text) - Len(term)) :
        LowerStr(SubSeq(text, i + 1, i + Len(term))) = LowerStr(term)

Matches(doc, qy) ==
    \A k \in DOMAIN qy :
        CASE k = "title" -> ContainsI(doc.title, qy[k].regex)
          [] k = "price" ->
                /\ "$gte" \in DOMAIN qy[k] => doc.price >= qy[k]["$gte"]
                /\ "$lte" \in DOMAIN qy[k] => doc.price <= qy[k]["$lte"]
          [] k = "variants.size" ->
                \E n \in 1..Len(doc.variants) : qy[k] \in doc.variants[n].size
          [] k = "variants.color" ->
                \E n \in 1..Len(doc.variants) : qy[k] \in doc.variants[n].color
          [] OTHER -> doc[k] = qy[k]

RECURSIVE Find(_, _)
Find(coll, qy) ==
    IF coll = <<>> THEN <<>>
    ELSE (IF Matches(Head(coll), qy) THEN <<Head(coll)>> ELSE <<>>) \o Find(Tail(coll), qy)

\* cursor.limit(n)
Limit(docs, n) == SubSeq(docs, 1, IF Len(docs) < n THEN Len(docs) ELSE n)

\* The positions of the documents with this _id (at most one).
ById(coll, id) == {n \in 1..Len(coll) : coll[n]._id = id}

ResultCap == 60

ReplyTo(request, status, detail, body) ==
    resp' = [request |-> request, status |-> status, detail |-> detail, body |-> body]

\* GET /products
list_products(f) ==
    /\ UNCHANGED <<db, storeUp, nextOid, user, product, order, pc, req>>
    /\ LET request == [op |-> "list_products", filters |-> f]
       IN  IF db = None
           THEN /\ query' = {}
                /\ ReplyTo(request, 200, "OK", <<>>)
           ELSE /\ query' = {ListQuery(f)}
                /\ IF ~storeUp
                   THEN ReplyTo(request, 500, "store", <<>>)
                   ELSE LET docs == Limit(Find(product, ListQuery(f)), ResultCap)
                        IN  ReplyTo(request, 200, "OK",
                                    [n \in 1..Len(docs) |-> to_public(docs[n])])

\* What the properties need of a request by identifier: whether the id is
\* well formed, whether a product has it, whether the store could be asked.
IdFacts(op, product_id) ==
    [op |-> op,
     well_formed |-> IsObjectId(product_id),
     present |-> IsObjectId(product_id) /\ ById(product, ObjectId(product_id)) # {},
     handle |-> db # None,
     store_up |-> storeUp]

\* GET /products/{product_id}
get_product(product_id) ==
    /\ UNCHANGED <<db, storeUp, nextOid, user, product, order, query, pc, req>>
    /\ LET request == IdFacts("get_product", product_id)
       IN  IF db = None THEN ReplyTo(request, 404, "Not found", <<>>)
           ELSE IF ~IsObjectId(product_id) \/ ~storeUp
           THEN ReplyTo(request, 400, "Invalid id", <<>>)
           ELSE LET found == ById(product, ObjectId(product_id))
                IN  IF found = {} THEN ReplyTo(request, 404, "Not found", <<>>)
                    ELSE ReplyTo(request, 200, "OK",
                                 to_public(product[CHOOSE n \in found : TRUE]))

\* POST /admin/products
admin_create_product(payload) ==
    /\ nextOid <= MaxProducts
    /\ UNCHANGED <<db, storeUp, user, order, query, pc, req>>
    /\ LET request == [op |-> "admin_create_product"]
       IN  IF ~ProductValid(payload)
           THEN /\ ReplyTo(request, 500, "ValidationError", <<>>)
                /\ UNCHANGED <<product, nextOid>>
           ELSE IF CreateDocumentRaises
           THEN /\ ReplyTo(request, 500, "store", <<>>)
                /\ UNCHANGED <<product, nextOid>>
           ELSE /\ product' = Append(product, WithId(ProductDump(payload), OidStr(nextOid)))
                /\ nextOid' = nextOid + 1
                /\ ReplyTo(request, 200, "OK", [id |-> OidStr(nextOid)])

\* update_one(..., {"$set": payload}): the payload's fields overwrite the
\* document's, unvalidated.
SetFields(doc, payload) ==
    [f \in DOMAIN doc \cup DOMAIN payload |->
        IF f \in DOMAIN payload THEN payload[f] ELSE doc[f]]

\* PATCH /admin/products/{product_id}
admin_update_product(product_id, payload) ==
    /\ UNCHANGED <<db, storeUp, nextOid, user, order, query, pc, req>>
    /\ LET request == IdFacts("admin_update_product", product_id)
       IN  IF db = None
           THEN ReplyTo(request, 500, "DB not ready", <<>>) /\ UNCHANGED product
           ELSE IF ~IsObjectId(product_id) \/ ~storeUp
           THEN ReplyTo(request, 400, "Invalid id", <<>>) /\ UNCHANGED product
           ELSE LET found == ById(product, ObjectId(product_id))
                IN  IF found = {}
                    THEN ReplyTo(request, 404, "Not found", <<>>) /\ UNCHANGED product
                    ELSE /\ product' = [n \in 1..Len(product) |->
                                IF n \in found THEN SetFields(product[n], payload)
                                ELSE product[n]]
                         /\ ReplyTo(request, 200, "OK", [updated |-> TRUE])

RECURSIVE Without(_, _)
Without(coll, id) ==
    IF coll = <<>> THEN <<>>
    ELSE (IF Head(coll)._id = id THEN <<>> ELSE <<Head(coll)>>) \o Without(Tail(coll), id)

\* DELETE /admin/products/{product_id}
admin_delete_product(product_id) ==
    /\ UNCHANGED <<db, storeUp, nextOid, user, order, query, pc, req>>
    /\ LET request == IdFacts("admin_delete_product", product_id)
       IN  IF db = None
           THEN ReplyTo(request, 500, "DB not ready", <<>>) /\ UNCHANGED product
           ELSE IF ~IsObjectId(product_id) \/ ~storeUp
           THEN ReplyTo(request, 400, "Invalid id", <<>>) /\ UNCHANGED product
           ELSE IF ById(product, ObjectId(product_id)) = {}
           THEN ReplyTo(request, 404, "Not found", <<>>) /\ UNCHANGED product
           ELSE /\ product' = Without(product, ObjectId(product_id))
                /\ ReplyTo(request, 200, "OK", [deleted |-> TRUE])

(***************************************************************************)
(* POST /auth/signup.  The handler calls the store twice, and other        *)
(* requests may run between the calls: the find with the check of its      *)
(* result is one step of a request, the validation of the User with the    *)
(* insert and the reply the other.  bool(db) is taken to be db is not None.*)
(***************************************************************************)
\* A lookup that never finds the email.
EmailTaken_Never(email) == FALSE

\* list(db.user.find({"email": payload.email})) is not empty
EmailTaken(email) == \E n \in 1..Len(user) : user[n].email = email

\* payload.email.split("@")[0]
LocalPart(e) ==
    LET ats == {i \in 1..Len(e) : e[i] = "@"}
    IN  IF ats = {} THEN e
        ELSE SubSeq(e, 1, (CHOOSE i \in ats : \A j \in ats : i <= j) - 1)

\* payload.name or payload.email.split("@")[0]
UserName(payload) ==
    IF Truthy(payload.name, <<>>) THEN The(payload.name) ELSE LocalPart(payload.email)

\* User(name=..., email=..., password_hash=...)
UserValid(name, email) == Len(name) >= 2 /\ Len(name) <= 80 /\ EmailValid(email)

UserDump(name, email, password) ==
    [name |-> name, email |-> email, password_hash |-> password,
     role |-> "user", avatar_url |-> {}, is_active |-> TRUE]

\* What the properties need of a signup: whether a User with the email was
\* in the store when the request began, and whether the store could be asked.
SignupFacts(p, payload) ==
    [op |-> "signup", proc |-> p, email |-> payload.email,
     registered |-> \E n \in 1..Len(user) : user[n].email = payload.email,
     handle |-> db # None,
     store_up |-> storeUp]

InFlight == {p \in Procs : pc[p] = "create"}

\* Lines 86-88.
signup_find(p, payload) ==
    /\ pc[p] = "idle"
    /\ nextOid + Cardinality(InFlight) <= MaxUsers
    /\ UNCHANGED <<db, storeUp, nextOid, user, product, order, query>>
    /\ IF db # None /\ ~storeUp
       THEN /\ ReplyTo(SignupFacts(p, payload), 500, "store", <<>>)
            /\ UNCHANGED <<pc, req>>
       ELSE IF db # None /\ EmailTaken(payload.email)
       THEN /\ ReplyTo(SignupFacts(p, payload), 400, "Email already registered", <<>>)
            /\ UNCHANGED <<pc, req>>
       ELSE /\ pc' = [pc EXCEPT ![p] = "create"]
            /\ req' = [req EXCEPT ![p] = [payload |-> payload,
                                          facts |-> SignupFacts(p, payload)]]
            /\ UNCHANGED resp

\* Lines 89-91.
signup_create(p) ==
    /\ pc[p] = "create"
    /\ pc' = [pc EXCEPT ![p] = "idle"]
    /\ req' = [req EXCEPT ![p] = <<>>]
    /\ UNCHANGED <<db, storeUp, product, order, query>>
    /\ LET payload == req[p].payload
           name == UserName(payload)
       IN  IF ~UserValid(name, payload.email)
           THEN /\ ReplyTo(req[p].facts, 500, "ValidationError", <<>>)
                /\ UNCHANGED <<user, nextOid>>
           ELSE IF CreateDocumentRaises
           THEN /\ ReplyTo(req[p].facts, 500, "store", <<>>)
                /\ UNCHANGED <<user, nextOid>>
           ELSE /\ user' = Append(user, WithId(UserDump(name, payload.email, payload.password),
                                                OidStr(nextOid)))
                /\ nextOid' = nextOid + 1
                /\ ReplyTo(req[p].facts, 200, "OK",
                           [id |-> OidStr(nextOid), email |-> payload.email,
                            name |-> name, role |-> "user"])

(***************************************************************************)
(* The environment: the process is started with or without a store handle  *)
(* (requests in flight are lost), and the store may become unreachable.    *)
(***************************************************************************)
Idle == [p \in Procs |-> "idle"]
NoReq == [p \in Procs |-> <<>>]

Restart ==
    /\ \E h \in {None, "db"} : db' = h
    /\ pc' = Idle /\ req' = NoReq
    /\ UNCHANGED <<storeUp, nextOid, user, product, order, resp, query>>

StoreFail ==
    /\ storeUp /\ storeUp' = FALSE
    /\ UNCHANGED <<db, nextOid, user, product, order, resp, query, pc, req>>

StoreRecover ==
    /\ ~storeUp /\ storeUp' = TRUE
    /\ UNCHANGED <<db, nextOid, user, product, order, resp, query, pc, req>>

NoResp == [request |-> [op |-> "none"], status |-> 0, detail |-> "", body |-> NoBody]

InitStore ==
    /\ db \in {None, "db"}
    /\ storeUp \in BOOLEAN
    /\ nextOid = 1
    /\ user = <<>> /\ product = <<>> /\ order = <<>>
    /\ resp = NoResp
    /\ query = {}
    /\ pc = Idle /\ req = NoReq

(***************************************************************************)
(* Checkout requests.                                                      *)
(***************************************************************************)
FullAddress == AddressRequired
NoCityAddress == AddressRequired \ {"city"}

GoodEmail == <<"a","b","@","x",".","i","o">>
ShortEmail == <<"a","@","x",".","i","o">>
BadEmail == <<"a","b",".","i","o">>

Item(product_id, quantity, price) ==
    [product_id |-> product_id, quantity |-> quantity, price |-> price]

\* Carts are drawn from these items: three that satisfy CartItem (one with its
\* quantity as a string), then a quantity of 0, a negative price, a quantity
\* that spells no number and the quantity 1.5.
SampleItems ==
    {Item("p1", Num(1), Num(1)), Item("p2", Num(2), Num(3)), Item("p1", Str(2), Num(5)),
     Item("p1", Num(0), Num(1)), Item("p2", Num(1), Num(-1)),
     Item("p1", Bad, Num(1)), Item("p1", Frac(1), Num(1))}

Carts == UNION {[1..n -> SampleItems] : n \in 0..MaxItems}

Envelopes ==
    {<<"stripe", FullAddress, {}>>, <<"cod", FullAddress, {GoodEmail}>>,
     <<"paypal", FullAddress, {}>>, <<"stripe", NoCityAddress, {}>>,
     <<"cod", FullAddress, {BadEmail}>>}

CheckoutPayloads ==
    {[items |-> c, payment_method |-> e[1], shipping_address |-> e[2], email |-> e[3]] :
        c \in Carts, e \in Envelopes}

NextCheckout ==
    \/ \E payload \in CheckoutPayloads : checkout(payload)
    \/ Restart
    \/ StoreFail
    \/ StoreRecover

SpecCheckout == InitStore /\ [][NextCheckout]_vars

(***************************************************************************)
(* Admin and lookup requests.                                              *)
(***************************************************************************)
Variant(size, color, stock) == [size |-> size, color |-> color, stock |-> stock]

ProductIn(title, price, category, lists, variants) ==
    [title |-> title, price |-> price, category |-> category,
     images |-> lists, variants |-> variants, tags |-> lists]

Tee == <<"T","e","e">>
Hat == <<"H","a","t">>

\* A product that passes the schema, one with a negative price, one that
\* leaves the optional lists out, one with a negative stock.
TeeIn == ProductIn(Tee, Num(2), "tops", {<<>>}, {<<Variant({"M"}, {"red"}, Num(1))>>})
HatIn == ProductIn(Hat, Num(4), "hats", {<<>>}, {<<Variant({}, {"blue"}, Missing)>>})
NegativePriceIn == ProductIn(Tee, Num(-1), "tops", {<<>>}, {<<>>})
NoListsIn == ProductIn(Tee, Num(2), "tops", {}, {})
NegativeStockIn == ProductIn(Hat, Num(4), "hats", {<<>>}, {<<Variant({}, {"blue"}, Num(-1))>>})

AdminPayloads == {TeeIn, NegativePriceIn, NoListsIn, NegativeStockIn}

PatchPayloads == {[price |-> 3], [price |-> -1], [is_active |-> FALSE]}

Upper1 ==
    <<"6","7","2","6","4","E","9","1">> \o
    <<"B","3","C","0","D","5","A","8","F","7">> \o
    <<"0","0","0","0","0","1">>

\* Identifiers a client may send: ids the store hands out (one of them in
\* upper case), a well-formed id it never hands out, and two malformed ones.
ProductIds ==
    {OidStr(1), OidStr(2), Upper1, OidStr(99), <<"x","y","z">>,
     [i \in 1..24 |-> IF i = 24 THEN "g" ELSE "0"]}

NextAdmin ==
    \/ \E payload \in AdminPayloads : admin_create_product(payload)
    \/ \E id \in ProductIds, payload \in PatchPayloads : admin_update_product(id, payload)
    \/ \E id \in ProductIds : admin_delete_product(id)
    \/ \E id \in ProductIds : get_product(id)
    \/ Restart
    \/ StoreFail
    \/ StoreRecover

SpecAdmin == InitStore /\ [][NextAdmin]_vars

(***************************************************************************)
(* Catalog searches.                                                       *)
(***************************************************************************)
Filters ==
    [q : {{}, {<<>>}, {<<"t","e">>}},
     category : {{}, {""}, {"tops"}},
     size : {{}, {"M"}},
     color : {{}, {"blue"}},
     min_price : {{}, {0}, {3}},
     max_price : {{}, {3}}]

NextCatalog ==
    \/ \E f \in Filters : list_products(f)
    \/ \E payload \in {TeeIn, HatIn} : admin_create_product(payload)
    \/ \E id \in {OidStr(1)} : admin_update_product(id, [is_active |-> FALSE])

SpecCatalog == InitStore /\ [][NextCatalog]_vars

(***************************************************************************)
(* Signup requests.                                                        *)
(***************************************************************************)
AuthPayloads ==
    [name : {{}, {<<"A","l">>}}, email : {GoodEmail, ShortEmail, BadEmail}, password : {"pw"}]

NextAuth ==
    \/ \E p \in Procs, payload \in AuthPayloads : signup_find(p, payload)
    \/ \E p \in Procs : signup_create(p)
    \/ Restart
    \/ StoreFail
    \/ StoreRecover

SpecAuth == InitStore /\ [][NextAuth]_vars

CheckoutReplied == resp.request.op = "checkout"

CheckoutSucceeded == CheckoutReplied /\ resp.status = 200

\* C1: every Order persisted by POST /checkout has status pending, and
\* payment_status requires_action when its payment_method is stripe and
\* pending when it is cod.
C1_PersistedPaymentStatus ==
    \A n \in 1..Len(order) :
        /\ order[n].status = "pending"
        /\ order[n].payment_method = "stripe" => order[n].payment_status = "requires_action"
        /\ order[n].payment_method = "cod" => order[n].payment_status = "pending"

\* C2: a checkout whose cart holds an item with quantity < 1, price < 0 or a
\* value that is no number is rejected and leaves the order collection as it
\* was; every item of every persisted Order has quantity >= 1 and price >= 0.
C2_BrokenCartRejected ==
    [][/\ (CheckoutReplied' /\ resp'.request.broken_item)
            => (order' = order /\ resp'.status # 200)
       /\ \A n \in 1..Len(order') : \A k \in 1..Len(order'[n].items) :
            order'[n].items[k].quantity >= 1 /\ order'[n].items[k].price >= 0]_vars

\* A cart with a broken item beside a sound one was rejected.
C2_Witness ==
    /\ CheckoutReplied /\ resp.request.broken_item /\ resp.request.sound_item
    /\ resp.status = 500 /\ db # None /\ storeUp

\* C3: a checkout with an empty item list fails with a 4xx error and writes
\* nothing to the store.
C3_EmptyCartRejected ==
    [][(CheckoutReplied' /\ resp'.request.no_items)
        => /\ resp'.status \in 400..499
           /\ order' = order /\ user' = user /\ product' = product]_vars

\* An empty cart was rejected while the store could have taken the order.
C3_Witness ==
    /\ CheckoutReplied /\ resp.request.no_items /\ resp.status = 400
    /\ db # None /\ storeUp

RECURSIVE StoredSum(_, _)
StoredSum(items, n) ==
    IF n = 0 THEN 0 ELSE StoredSum(items, n - 1) + items[n].price * items[n].quantity

\* C4: a persisted Order has shipping 0, total = round(sum of price * quantity
\* over its items, 2) = round(subtotal + shipping, 2), and the total of the
\* response is the total of the Order it names.
C4_Totals ==
    /\ \A n \in 1..Len(order) :
        /\ order[n].shipping = 0
        /\ order[n].total = round2(StoredSum(order[n].items, Len(order[n].items)))
        /\ order[n].total = round2(order[n].subtotal + order[n].shipping)
    /\ CheckoutSucceeded =>
        \E n \in 1..Len(order) :
            order[n]._id = resp.body.order_id /\ order[n].total = resp.body.total

\* A two-item order whose subtotal 7/8 = 0.875 is a rounding tie, total 0.88.
C4_Witness ==
    /\ CheckoutSucceeded /\ resp.body.total = 88
    /\ \E n \in 1..Len(order) : Len(order[n].items) = 2 /\ order[n].subtotal = 7

\* C5: the payment stub of a successful checkout: for stripe, status
\* requires_action and the client secret "cs_test_" followed by the first 8
\* characters of the id of the order just persisted; for cod, status pending
\* and no client_secret key.
C5_PaymentStub ==
    CheckoutSucceeded =>
        LET pay == resp.body.payment
            id == order[Len(order)]._id
        IN  /\ Len(order) > 0 /\ resp.body.order_id = id
            /\ pay.method \in {"stripe", "cod"}
            /\ pay.method = order[Len(order)].payment_method
            /\ pay.method = "stripe" =>
                /\ pay.status = "requires_action"
                /\ "client_secret" \in DOMAIN pay
                /\ pay.client_secret # <<>>
                /\ pay.client_secret =
                     <<"c","s","_","t","e","s","t","_">> \o SubSeq(id, 1, 8)
            /\ pay.method = "cod" =>
                /\ pay.status = "pending"
                /\ "client_secret" \notin DOMAIN pay

C5_Witness ==
    /\ CheckoutSucceeded /\ resp.body.payment.method = "stripe"
    /\ resp.body.payment.client_secret =
         <<"c","s","_","t","e","s","t","_","6","7","2","6","4","e","9","1">>

(***************************************************************************)
(* Properties of the catalog.                                              *)
(***************************************************************************)
Looked == resp.request.op = "get_product"

\* C6: GET /products/{id} reports a well-formed id without a document as 404,
\* a malformed id as 400 and a store that cannot be asked as a server error,
\* never one as another.
C6_ThreeOutcomes ==
    Looked =>
        LET r == resp.request
            asked == r.handle /\ r.store_up
        IN  /\ (asked /\ r.well_formed /\ ~r.present) => resp.status = 404
            /\ (asked /\ ~r.well_formed) => resp.status = 400
            /\ (~asked /\ r.well_formed) => resp.status \in 500..599

\* The clauses of predicate qy are those of the filters in `on`, with the
\* values of f.
Clauses(qy, f, on) ==
    /\ DOMAIN qy = {"is_active"} \cup on
    /\ qy["is_active"] = TRUE
    /\ "title" \in on => qy["title"] = [regex |-> The(f.q), options |-> "i"]
    /\ "category" \in on => qy["category"] = The(f.category)
    /\ "variants.size" \in on => qy["variants.size"] = The(f.size)
    /\ "variants.color" \in on => qy["variants.color"] = The(f.color)
    /\ "price" \in on =>
        /\ DOMAIN qy["price"] = {b \in {"$gte"} : f.min_price # {}}
                                  \cup {b \in {"$lte"} : f.max_price # {}}
        /\ f.min_price # {} => qy["price"]["$gte"] = The(f.min_price)
        /\ f.max_price # {} => qy["price"]["$lte"] = The(f.max_price)

Listed == resp.request.op = "list_products"

\* C8: the predicate sent to the store holds the active-only clause, a clause
\* for each filter the request supplied and none for the others; the price
\* bounds make one range clause, absent when neither is supplied.
C8_ClausePerSuppliedFilter ==
    Listed => \A qy \in query :
        LET f == resp.request.filters
        IN  Clauses(qy, f,
                {k \in {"title"} : f.q # {}} \cup {k \in {"category"} : f.category # {}}
                \cup {k \in {"variants.size"} : f.size # {}}
                \cup {k \in {"variants.color"} : f.color # {}}
                \cup {k \in {"price"} : f.min_price # {} \/ f.max_price # {}})

\* C8 as amended: a text filter (term, category, size, color) counts as
\* supplied when it is a non-empty string; a price bound when it is given,
\* zero included.
C8_ClausePerNonEmptyFilter ==
    Listed => \A qy \in query :
        LET f == resp.request.filters
        IN  Clauses(qy, f,
                {k \in {"title"} : f.q \notin {{}, {<<>>}}}
                \cup {k \in {"category"} : f.category \notin {{}, {""}}}
                \cup {k \in {"variants.size"} : f.size \notin {{}, {""}}}
                \cup {k \in {"variants.color"} : f.color \notin {{}, {""}}}
                \cup {k \in {"price"} : f.min_price # {} \/ f.max_price # {}})

\* A search with an empty term, a category, and a lower bound of zero alone
\* was sent to the store and answered.
C8_Witness ==
    /\ Listed /\ query # {} /\ resp.status = 200 /\ Len(resp.body) > 0
    /\ resp.request.filters.q = {<<>>}
    /\ resp.request.filters.category = {"tops"}
    /\ resp.request.filters.min_price = {0}
    /\ resp.request.filters.max_price = {}

\* C9: every Product document in the store has price >= 0 and every variant
\* stock >= 0.
C9_ProductInvariants ==
    \A n \in 1..Len(product) :
        /\ product[n].price >= 0
        /\ \A k \in 1..Len(product[n].variants) : product[n].variants[k].stock >= 0

(***************************************************************************)
(* Properties of signup.                                                   *)
(***************************************************************************)
SignedUp == resp.request.op = "signup"

\* C7: a signup whose email was registered when the request began fails with
\* Conflict and leaves the user collection as it was, whatever the state of
\* the store and of its handle.
C7_DuplicateAlwaysConflict ==
    [][(SignedUp' /\ resp'.request.registered)
        => /\ resp'.status = 400 /\ resp'.detail = "Email already registered"
           /\ user' = user]_vars

\* C7 as amended: such a signup never succeeds and never adds a User; it
\* fails with Conflict when the handle is there and the store answers the
\* lookup, and with a server error when the handle is missing or the lookup
\* fails.
C7_DuplicateNeverInserted ==
    [][(SignedUp' /\ resp'.request.registered)
        => /\ user' = user
           /\ (resp'.request.handle /\ resp'.request.store_up)
                => (resp'.status = 400 /\ resp'.detail = "Email already registered")
           /\ ~(resp'.request.handle /\ resp'.request.store_up)
                => resp'.status = 500]_vars

\* A duplicate signup was refused with Conflict while its email is in the
\* store.
C7_Witness ==
    /\ SignedUp /\ resp.request.registered /\ resp.request.handle
    /\ resp.status = 400
    /\ \E n \in 1..Len(user) : user[n].email = resp.request.email

\* C10: no two User documents have the same email.
C10_UniqueEmails ==
    \A i, j \in 1..Len(user) : i # j => user[i].email # user[j].email

====
